---- MODULE Spec2Model ----
(***************************************************************************)
(* Retrieval engine of masterhyuns/test-llm: the two vector stores         *)
(* (OpenSearchStore: hybrid lexical + k-NN, QdrantStore: dense only) and   *)
(* the RAGEngine orchestrator bound to one of them.                        *)
(*                                                                         *)
(* The stores are network services.  The model keeps, for the bound store, *)
(* the documents it holds (docs), the snapshot searches read (searchView), *)
(* whether its schema exists, and the requests the clients issued.  Scores *)
(* are integers in hundredths (0.30 is 30).                                *)
(***************************************************************************)
EXTENDS Integers, Sequences, FiniteSets, TLC

\* ------------------------------------------------------------------ bounds
MaxDocs == 3       \* add_document calls per run (ids 1..MaxDocs)
MaxLimit == 2      \* largest limit / context_limit a caller passes

\* ------------------------------------------------------- program constants
DefaultScoreThreshold == 30   \* QdrantStore.search(score_threshold=0.3)
KnnCandidateFactor == 2       \* "k": limit * 2 in the hybrid query

\* ---------------------------------------------------------------- inputs
OPENSEARCH == "opensearch"
QDRANT == "qdrant"
Backends == {OPENSEARCH, QDRANT}

NoUser == ""                  \* user_id None: `if user_id:` is false
NoTags == {}                  \* tags None or []: `if tags:` is false
Orgs == {"org_1", "org_2"}
Meta == [title |-> "doc"]
DocIds == 1 .. MaxDocs
Limits == 1 .. MaxLimit
Thresholds == {0, 60}         \* score_threshold a direct caller passes

\* Texts are opaque strings; what the providers and the analyzer make of
\* them is fixed by the two tables below.
DocTexts == {"deadline near", "deadline far", "other mid"}
QueryTexts == {"deadline?", "unrelated?"}

\* The standard analyzer's terms of a text (the lexical signal).
Terms(text) ==
    CASE text = "deadline near" -> {"deadline"}
      [] text = "deadline far"  -> {"deadline"}
      [] text = "other mid"     -> {"other"}
      [] text = "deadline?"     -> {"deadline"}
      [] OTHER                  -> {}

\* Embedding provider: text -> vector (a direction 0..2).
Embedding(text) ==
    CASE text = "deadline near" -> 0
      [] text = "deadline far"  -> 2
      [] text = "other mid"     -> 1
      [] text = "deadline?"     -> 0
      [] OTHER                  -> 2

\* Cosine similarity of two vectors, in hundredths.
Cosine(a, b) ==
    LET d == IF a >= b THEN a - b ELSE b - a
    IN  CASE d = 0 -> 100
          [] d = 1 -> 50
          [] OTHER -> 10

\* ---------------------------------------------------------------- helpers
Min(a, b) == IF a <= b THEN a ELSE b

Get(d, k, default) == IF k \in DOMAIN d THEN d[k] ELSE default

\* dict update {**d, k: v}
Put(d, k, v) == [x \in DOMAIN d \cup {k} |-> IF x = k THEN v ELSE d[x]]

Without(d, keys) == [x \in DOMAIN d \ keys |-> d[x]]

\* The id of S with the highest score[id]; ties go to the lower id.
Best(S, score) ==
    CHOOSE i \in S : \A j \in S :
        score[i] > score[j] \/ (score[i] = score[j] /\ i <= j)

\* The ids of S best first.
RECURSIVE Ranked(_, _)
Ranked(S, score) ==
    IF S = {} THEN <<>>
    ELSE LET b == Best(S, score)
         IN  <<b>> \o Ranked(S \ {b}, score)

Take(seq, n) == SubSeq(seq, 1, Min(n, Len(seq)))

Range(seq) == {seq[i] : i \in DOMAIN seq}

Ids(results) == {results[i].id : i \in DOMAIN results}

\* ------------------------------------------------- OpenSearchStore (pure)
\* The body add_document sends to client.index: user_id and tags only when
\* truthy.  (created_at, a wall-clock stamp no operation reads, is left out.)
OpenSearchDocument(text, metadata, organization_id, user_id, tags) ==
    LET base == [text |-> text,
                 embedding |-> Embedding(text),
                 organization_id |-> organization_id,
                 metadata |-> metadata]
        withUser == IF user_id # NoUser THEN Put(base, "user_id", user_id)
                    ELSE base
    IN  IF tags # NoTags THEN Put(withUser, "tags", tags) ELSE withUser

\* Mutant: the organization_id term clause is missing from the filters.
OpenSearchFilter_no_org(d, organization_id, user_id, tags) ==
    /\ user_id # NoUser => ("user_id" \in DOMAIN d /\ d["user_id"] = user_id)
    /\ tags # NoTags => ("tags" \in DOMAIN d /\ d["tags"] \cap tags # {})

\* Mutant: the tags clause asks for every requested tag.
OpenSearchFilter_all_tags(d, organization_id, user_id, tags) ==
    /\ d["organization_id"] = organization_id
    /\ user_id # NoUser => ("user_id" \in DOMAIN d /\ d["user_id"] = user_id)
    /\ tags # NoTags => ("tags" \in DOMAIN d /\ tags \subseteq d["tags"])

\* filter_conditions: a term clause on organization_id, one on user_id when
\* user_id is truthy, a terms (any-of) clause on tags when tags is truthy.
OpenSearchFilter(d, organization_id, user_id, tags) ==
    /\ d["organization_id"] = organization_id
    /\ user_id # NoUser => ("user_id" \in DOMAIN d /\ d["user_id"] = user_id)
    /\ tags # NoTags => ("tags" \in DOMAIN d /\ d["tags"] \cap tags # {})

\* The k nearest neighbours of the query vector.  The knn clause is a clause
\* of the bool query beside the filters, not a knn with a filter of its own:
\* the store picks its k candidates over the whole index.
KnnCandidates(view, query_embedding, k) ==
    LET cos == [i \in DOMAIN view |->
                   Cosine(query_embedding, view[i]["embedding"])]
    IN  Range(Take(Ranked(DOMAIN view, cos), k))

\* Lucene's score of a cosinesimil knn hit: (1 + cos) / 2.
KnnScore(query_embedding, d) ==
    (100 + Cosine(query_embedding, d["embedding"])) \div 2

\* The match clause on the text field: hit when a query term occurs in the
\* text; boost 1.0, one unit (100) per shared term.
MatchScore(query, d) == 100 * Cardinality(Terms(query) \cap Terms(d["text"]))

\* Mutant: both signals required (strict AND instead of should / min 1).
HybridHits_and(view, query, organization_id, user_id, tags, limit) ==
    LET cand == KnnCandidates(view, Embedding(query),
                              limit * KnnCandidateFactor)
    IN  {i \in DOMAIN view :
            /\ OpenSearchFilter(view[i], organization_id, user_id, tags)
            /\ (MatchScore(query, view[i]) > 0 /\ i \in cand)}

\* The bool query with use_hybrid: must = filters, should = [match, knn],
\* minimum_should_match 1; size = limit, k = limit * 2.
HybridHits(view, query, organization_id, user_id, tags, limit) ==
    LET cand == KnnCandidates(view, Embedding(query),
                              limit * KnnCandidateFactor)
    IN  {i \in DOMAIN view :
            /\ OpenSearchFilter(view[i], organization_id, user_id, tags)
            /\ (MatchScore(query, view[i]) > 0 \/ i \in cand)}

HybridScore(view, query, limit) ==
    LET cand == KnnCandidates(view, Embedding(query),
                              limit * KnnCandidateFactor)
    IN  [i \in DOMAIN view |->
            MatchScore(query, view[i])
            + (IF i \in cand THEN KnnScore(Embedding(query), view[i]) ELSE 0)]

\* The bool query without use_hybrid: must = filters + knn with k = limit.
VectorOnlyHits(view, query, organization_id, user_id, tags, limit) ==
    LET cand == KnnCandidates(view, Embedding(query), limit)
    IN  {i \in DOMAIN view :
            /\ OpenSearchFilter(view[i], organization_id, user_id, tags)
            /\ i \in cand}

VectorOnlyScore(view, query) ==
    [i \in DOMAIN view |-> KnnScore(Embedding(query), view[i])]

\* One hit as search() hands it back.
OpenSearchResult(view, i, score) ==
    [id |-> i,
     score |-> score,
     text |-> Get(view[i], "text", ""),
     metadata |-> Get(view[i], "metadata", <<>>),
     tags |-> Get(view[i], "tags", {})]

\* OpenSearchStore.search, embedding and store both answering.
OpenSearchStore_search(view, query, organization_id, user_id, tags, limit, use_hybrid) ==
    LET hits == IF use_hybrid
                THEN HybridHits(view, query, organization_id, user_id, tags,
                                limit)
                ELSE VectorOnlyHits(view, query, organization_id, user_id,
                                    tags, limit)
        score == IF use_hybrid THEN HybridScore(view, query, limit)
                 ELSE VectorOnlyScore(view, query)
        top == Take(Ranked(hits, score), limit)
    IN  [n \in DOMAIN top |-> OpenSearchResult(view, top[n], score[top[n]])]

\* ----------------------------------------------------- QdrantStore (pure)
\* payload = {**metadata, organization_id, text}, plus user_id when truthy.
QdrantPayload(text, metadata, organization_id, user_id) ==
    LET base == Put(Put(metadata, "organization_id", organization_id),
                    "text", text)
    IN  IF user_id # NoUser THEN Put(base, "user_id", user_id) ELSE base

\* Mutant: the point carries a vector that is not this text's embedding.
QdrantPoint_other_vector(text, metadata, organization_id, user_id) ==
    [vector |-> Embedding(""),
     payload |-> QdrantPayload(text, metadata, organization_id, user_id)]

QdrantPoint(text, metadata, organization_id, user_id) ==
    [vector |-> Embedding(text),
     payload |-> QdrantPayload(text, metadata, organization_id, user_id)]

\* Mutant: the user_id condition is missing from the filter.
QdrantFilter_no_user(p, organization_id, user_id) ==
    Get(p.payload, "organization_id", "") = organization_id

\* Filter(must=[organization_id, user_id when truthy]).
QdrantFilter(p, organization_id, user_id) ==
    /\ Get(p.payload, "organization_id", "") = organization_id
    /\ user_id # NoUser =>
           ("user_id" \in DOMAIN p.payload /\ p.payload["user_id"] = user_id)

\* Mutant: score_threshold is not handed to query_points.
QdrantPasses_any(score, score_threshold) == TRUE

\* query_points hands back only points whose score reaches score_threshold.
QdrantPasses(score, score_threshold) == score >= score_threshold

QdrantResult(view, i, score) ==
    [id |-> i,
     score |-> score,
     text |-> Get(view[i].payload, "text", ""),
     metadata |-> Without(view[i].payload,
                          {"text", "organization_id", "user_id"})]

\* Mutant: limit is applied to the filtered points before the threshold and
\* the ranking.
QdrantStore_search_limit_first(view, query, organization_id, user_id, limit, score_threshold) ==
    LET cos == [i \in DOMAIN view |-> Cosine(Embedding(query), view[i].vector)]
        byId == [i \in DOMAIN view |-> 0 - i]
        firstN == Range(Take(Ranked(
                      {i \in DOMAIN view :
                          QdrantFilter(view[i], organization_id, user_id)},
                      byId), limit))
        hits == {i \in firstN : QdrantPasses(cos[i], score_threshold)}
        top == Ranked(hits, cos)
    IN  [n \in DOMAIN top |-> QdrantResult(view, top[n], cos[top[n]])]

\* QdrantStore.search, embedding and store both answering.
QdrantStore_search(view, query, organization_id, user_id, limit, score_threshold) ==
    LET cos == [i \in DOMAIN view |-> Cosine(Embedding(query), view[i].vector)]
        hits == {i \in DOMAIN view :
                    /\ QdrantFilter(view[i], organization_id, user_id)
                    /\ QdrantPasses(cos[i], score_threshold)}
        top == Take(Ranked(hits, cos), limit)
    IN  [n \in DOMAIN top |-> QdrantResult(view, top[n], cos[top[n]])]

\* -------------------------------------------------------- RAGEngine (pure)
\* Mutant: the dense store is handed the tags and keeps them in the payload.
StoredDocument_keeps_tags(b, text, metadata, organization_id, user_id, tags) ==
    IF b = OPENSEARCH
    THEN OpenSearchDocument(text, metadata, organization_id, user_id, tags)
    ELSE LET p == QdrantPoint(text, metadata, organization_id, user_id)
         IN  IF tags # NoTags
             THEN [p EXCEPT !.payload = Put(@, "tags", tags)]
             ELSE p

\* add_document: tags reach the store only when it is an OpenSearchStore.
StoredDocument(b, text, metadata, organization_id, user_id, tags) ==
    IF b = OPENSEARCH
    THEN OpenSearchDocument(text, metadata, organization_id, user_id, tags)
    ELSE QdrantPoint(text, metadata, organization_id, user_id)

\* Mutant: the orchestrator hands the list back in the opposite order.
RAGEngine_search_documents_resorted(b, view, query, organization_id, user_id, tags, limit) ==
    LET r == IF b = OPENSEARCH
             THEN OpenSearchStore_search(view, query, organization_id,
                                         user_id, tags, limit, TRUE)
             ELSE QdrantStore_search(view, query, organization_id, user_id,
                                     limit, DefaultScoreThreshold)
    IN  [n \in DOMAIN r |-> r[Len(r) + 1 - n]]

\* Mutant: tags are not forwarded to the hybrid store either.
RAGEngine_search_documents_drops_tags(b, view, query, organization_id, user_id, tags, limit) ==
    IF b = OPENSEARCH
    THEN OpenSearchStore_search(view, query, organization_id, user_id, NoTags,
                                limit, TRUE)
    ELSE QdrantStore_search(view, query, organization_id, user_id, limit,
                            DefaultScoreThreshold)

\* search_documents: the isinstance branch; the dense store gets neither
\* tags nor a score_threshold, so its default is in force.
RAGEngine_search_documents(b, view, query, organization_id, user_id, tags, limit) ==
    IF b = OPENSEARCH
    THEN OpenSearchStore_search(view, query, organization_id, user_id, tags,
                                limit, TRUE)
    ELSE QdrantStore_search(view, query, organization_id, user_id, limit,
                            DefaultScoreThreshold)

\* The organization a stored document is filed under.
OrgOf(b, d) == IF b = OPENSEARCH THEN d["organization_id"]
               ELSE d.payload["organization_id"]

\* The user a stored document is filed under, NoUser when it has none.
UserOf(b, d) == IF b = OPENSEARCH THEN Get(d, "user_id", NoUser)
                ELSE Get(d.payload, "user_id", NoUser)

VARIABLES
    backend,      \* the store RAGEngine.vector_store is bound to
    schema,       \* number of indices / collections of that name in the store
    docs,         \* id -> stored document (the store's primary copy)
    searchView,   \* id -> document, as searches see the store
    nextId,       \* ids handed out so far (uuid4: never repeats)
    inst,         \* per store instance: position in __init__ / _ensure_*
    last,         \* the last completed call and what it returned
    ga,           \* the generate_answer call in progress
    redis         \* the RedisClient singleton and the connections it made

vars == <<backend, schema, docs, searchView, nextId, inst, last, ga, redis>>

\* ------------------------------------------------------------------ state
NumInstances == 2   \* store instances constructed against the same store
Instances == 1 .. NumInstances

NoCall == [op |-> "none"]

\* RedisClient.__init__: self._client = None (0: no client; connections are
\* numbered from 1).  pinged, closed: the connections that answered a ping,
\* that were closed.
NoClient == 0
NewRedisClient == [client |-> NoClient, made |-> 0, pinged |-> {},
                   closed |-> {}]
IdleAnswer == [pc |-> "idle", calls |-> <<>>]

\* A constructed client exists and no call is being answered: the handlers
\* are atomic towards the store, so calls are taken one at a time.
Ready == /\ \E i \in Instances : inst[i].pc = "ready"
         /\ last = NoCall

\* The documents callers ingest.
AddInputs ==
    {[text |-> t, metadata |-> Meta, organization_id |-> "org_1",
      user_id |-> NoUser, tags |-> NoTags] : t \in DocTexts}
    \cup
    {[text |-> "deadline near", metadata |-> Meta, organization_id |-> "org_2",
      user_id |-> NoUser, tags |-> NoTags],
     [text |-> "deadline near", metadata |-> Meta, organization_id |-> "org_1",
      user_id |-> "u1", tags |-> NoTags],
     [text |-> "deadline near", metadata |-> Meta, organization_id |-> "org_1",
      user_id |-> NoUser, tags |-> {"t1"}]}

\* The user_id / tags filters callers search with.
SearchScopes ==
    {[user_id |-> NoUser, tags |-> NoTags],
     [user_id |-> "u1", tags |-> NoTags],
     [user_id |-> NoUser, tags |-> {"t1"}],
     [user_id |-> NoUser, tags |-> {"t1", "t2"}]}

\* A store whose schema is in place and whose clients are constructed.
Init ==
    /\ backend \in Backends
    /\ schema = 1
    /\ docs = <<>>
    /\ searchView = <<>>
    /\ nextId = 0
    /\ inst = [i \in Instances |->
                  [pc |-> "ready", sawSchema |-> (i # 1),
                   creates |-> (IF i = 1 THEN 1 ELSE 0),
                   answer |-> (IF i = 1 THEN "created" ELSE "none"),
                   error |-> "none"]]
    /\ last = NoCall
    /\ ga = IdleAnswer
    /\ redis = NewRedisClient

\* An empty store nobody has connected to yet.
InitSchema ==
    /\ backend \in Backends
    /\ schema = 0
    /\ docs = <<>>
    /\ searchView = <<>>
    /\ nextId = 0
    /\ inst = [i \in Instances |->
                  [pc |-> "new", sawSchema |-> FALSE, creates |-> 0,
                   answer |-> "none", error |-> "none"]]
    /\ last = NoCall
    /\ ga = IdleAnswer
    /\ redis = NewRedisClient

\* The caller takes the response; the next call can be made.
Return ==
    /\ last # NoCall
    /\ last' = NoCall
    /\ UNCHANGED <<redis, backend, schema, docs, searchView, nextId, inst, ga>>

\* --------------------------------------------------- construction (schema)
\* Mutant: the create request is sent whether or not the schema is seen.
SkipsCreate_never(seen) == FALSE

\* `if exists: return` of _ensure_index, `if name not in collection_names`
\* of _ensure_collection: no create request when the schema is seen.
SkipsCreate(seen) == seen

\* What the except clauses make of the store's "already exists" answer to a
\* create request.  _ensure_index: RequestError carrying
\* resource_already_exists_exception is logged and swallowed.
\* _ensure_collection: `except Exception: ... raise`.
ToleratesAlreadyExists(b) == b = OPENSEARCH

\* indices.exists / get_collections, then return or go on to create.
EnsureCheck(i, fault) ==
    /\ inst[i].pc = "new"
    /\ inst' = [inst EXCEPT ![i] =
          IF fault # "none"
          THEN [@ EXCEPT !.pc = "failed", !.error = "connection"]
          ELSE IF SkipsCreate(schema >= 1)
          THEN [@ EXCEPT !.pc = "ready", !.sawSchema = (schema >= 1)]
          ELSE [@ EXCEPT !.pc = "creating", !.sawSchema = (schema >= 1)]]
    /\ UNCHANGED <<redis, backend, schema, docs, searchView, nextId, last, ga>>

\* indices.create / create_collection and the except clauses around it.
\* answer: what the store said to the create request.
EnsureCreate(i, fault) ==
    /\ inst[i].pc = "creating"
    /\ IF fault # "none"
       THEN /\ inst' = [inst EXCEPT ![i] =
                   [@ EXCEPT !.pc = "failed", !.error = "connection",
                             !.answer = "error", !.creates = @ + 1]]
            /\ UNCHANGED schema
       ELSE IF schema = 0
       THEN /\ schema' = 1
            /\ inst' = [inst EXCEPT ![i] =
                   [@ EXCEPT !.pc = "ready", !.answer = "created",
                             !.creates = @ + 1]]
       ELSE /\ UNCHANGED schema
            /\ inst' = [inst EXCEPT ![i] =
                   IF ToleratesAlreadyExists(backend)
                   THEN [@ EXCEPT !.pc = "ready",
                                  !.answer = "already_exists",
                                  !.creates = @ + 1]
                   ELSE [@ EXCEPT !.pc = "failed",
                                  !.answer = "already_exists",
                                  !.error = "already_exists",
                                  !.creates = @ + 1]]
    /\ UNCHANGED <<redis, backend, docs, searchView, nextId, last, ga>>

\* ------------------------------------------------------------- ingestion
\* Mutant: the write is left to the store's next periodic refresh.
IndexRefresh_later == FALSE

\* client.index(..., refresh=True): the write is searchable on return.
IndexRefresh == TRUE
\* client.upsert(...) with the client's default wait=True: the point is
\* applied, hence searchable, on return.
UpsertWait == TRUE

WriteVisible(b) == IF b = OPENSEARCH THEN IndexRefresh ELSE UpsertWait

\* Mutant: the next id is one the store already holds.
Uuid4_reused(n) == 1

\* str(uuid.uuid4()): an id no earlier call was given (n ids handed out).
Uuid4(n) == n + 1

\* Write requests add_document sends: _create_embedding raises before
\* client.index / client.upsert is reached; the write is sent once.
StoreWrites(fault) == IF fault = "embedding" THEN 0 ELSE 1

\* Embedding requests of one add_document: the single _create_embedding(text)
\* at the top of the try block, whatever happens next.
EmbeddingCalls(fault) == 1

\* Mutant: the store keeps the document of a write it answered with an error.
WriteApplied_despite_error(fault) == fault # "embedding"

\* The store holds the document only when neither call failed.
WriteApplied(fault) == fault = "none"

\* RAGEngine.add_document -> <store>.add_document: embed, uuid4, write.
\* fault: which external call fails, if any.
AddDocument(text, metadata, organization_id, user_id, tags, fault) ==
    /\ Ready
    /\ nextId < MaxDocs
    /\ LET id == Uuid4(nextId)
           d == StoredDocument(backend, text, metadata, organization_id,
                               user_id, tags)
       IN  /\ docs' = IF WriteApplied(fault) THEN (id :> d) @@ docs ELSE docs
           /\ searchView' = IF WriteApplied(fault) /\ WriteVisible(backend)
                            THEN docs' ELSE searchView
           /\ nextId' = IF WriteApplied(fault) THEN id ELSE nextId
           /\ last' = IF fault = "none"
                       THEN [op |-> "add_document",
                             args |-> [text |-> text, metadata |-> metadata,
                                       organization_id |-> organization_id,
                                       user_id |-> user_id, tags |-> tags],
                             outcome |-> "ok", result |-> id,
                             embeds |-> EmbeddingCalls(fault),
                             writes |-> StoreWrites(fault)]
                       ELSE [op |-> "add_document", outcome |-> "raise",
                             error |-> fault,
                             embeds |-> EmbeddingCalls(fault),
                             writes |-> StoreWrites(fault)]
    /\ UNCHANGED <<redis, backend, schema, inst, ga>>

\* The store makes earlier writes visible to searches (OpenSearch's periodic
\* refresh, Qdrant's update queue).
Refresh ==
    /\ searchView' = docs
    /\ UNCHANGED <<redis, backend, schema, docs, nextId, inst, last, ga>>

\* ---------------------------------------------------------------- search
\* RAGEngine.search_documents.
SearchDocuments(query, organization_id, user_id, tags, limit, fault) ==
    /\ Ready
    /\ LET args == [query |-> query, organization_id |-> organization_id,
                    user_id |-> user_id, tags |-> tags, limit |-> limit]
       IN  last' = IF fault = "none"
                   THEN [op |-> "search_documents", args |-> args,
                         outcome |-> "ok",
                         result |-> RAGEngine_search_documents(backend,
                             searchView, query, organization_id, user_id,
                             tags, limit)]
                   ELSE [op |-> "search_documents", outcome |-> "raise",
                         error |-> fault]
    /\ UNCHANGED <<redis, backend, schema, docs, searchView, nextId, inst, ga>>

\* OpenSearchStore.search called directly with use_hybrid=False.
OpenSearchSearch(query, organization_id, user_id, tags, limit, use_hybrid, fault) ==
    /\ Ready
    /\ backend = OPENSEARCH
    /\ LET args == [query |-> query, organization_id |-> organization_id,
                    user_id |-> user_id, tags |-> tags, limit |-> limit,
                    use_hybrid |-> use_hybrid]
       IN  last' = IF fault = "none"
                   THEN [op |-> "opensearch_search", args |-> args,
                         outcome |-> "ok",
                         result |-> OpenSearchStore_search(searchView, query,
                             organization_id, user_id, tags, limit,
                             use_hybrid)]
                   ELSE [op |-> "opensearch_search", outcome |-> "raise",
                         error |-> fault]
    /\ UNCHANGED <<redis, backend, schema, docs, searchView, nextId, inst, ga>>

\* QdrantStore.search called directly, score_threshold given.
QdrantSearch(query, organization_id, user_id, limit, score_threshold, fault) ==
    /\ Ready
    /\ backend = QDRANT
    /\ LET args == [query |-> query, organization_id |-> organization_id,
                    user_id |-> user_id, limit |-> limit,
                    score_threshold |-> score_threshold]
       IN  last' = IF fault = "none"
                   THEN [op |-> "qdrant_search", args |-> args,
                         outcome |-> "ok",
                         result |-> QdrantStore_search(searchView, query,
                             organization_id, user_id, limit,
                             score_threshold)]
                   ELSE [op |-> "qdrant_search", outcome |-> "raise",
                         error |-> fault]
    /\ UNCHANGED <<redis, backend, schema, docs, searchView, nextId, inst, ga>>

\* ---------------------------------------------------------------- delete
\* OpenSearchStore.delete_document: True after client.delete; NotFoundError
\* (no such id) -> False; any other exception -> logged, False.
OpenSearchStore_delete_document(stored, fault) ==
    IF fault # "none" THEN [outcome |-> "ok", result |-> FALSE]
    ELSE IF ~stored THEN [outcome |-> "ok", result |-> FALSE]
    ELSE [outcome |-> "ok", result |-> TRUE]

\* QdrantStore.delete_document: True after client.delete, which the store
\* acknowledges whether or not a point has the id; any exception -> False.
QdrantStore_delete_document(stored, fault) ==
    IF fault # "none" THEN [outcome |-> "ok", result |-> FALSE]
    ELSE [outcome |-> "ok", result |-> TRUE]

\* RAGEngine.delete_document: the store's answer; any exception -> False.
RAGEngine_delete_document(b, stored, fault) ==
    LET r == IF b = OPENSEARCH
             THEN OpenSearchStore_delete_document(stored, fault)
             ELSE QdrantStore_delete_document(stored, fault)
    IN  IF r.outcome = "raise" THEN [outcome |-> "ok", result |-> FALSE]
        ELSE r

\* client.delete(..., refresh=True) / client.delete with wait=True.
DeleteVisible(b) == TRUE

DeleteDocument(doc_id, fault) ==
    /\ Ready
    /\ LET stored == doc_id \in DOMAIN docs
           r == RAGEngine_delete_document(backend, stored, fault)
       IN  /\ docs' = IF fault = "none" /\ stored
                      THEN [i \in DOMAIN docs \ {doc_id} |-> docs[i]]
                      ELSE docs
           /\ searchView' = IF fault = "none" /\ DeleteVisible(backend)
                            THEN docs' ELSE searchView
           /\ last' = [op |-> "delete_document",
                       args |-> [doc_id |-> doc_id],
                       stored |-> stored, fault |-> fault,
                       outcome |-> r.outcome, result |-> r.result]
    /\ UNCHANGED <<redis, backend, schema, nextId, inst, ga>>

\* DELETE /documents/{doc_id}: 404 when rag_engine.delete_document answers
\* falsy, the success message (200) otherwise, 500 when it raises.
DeleteEndpointStatus(r) ==
    IF r.outcome = "raise" THEN 500
    ELSE IF ~r.result THEN 404
    ELSE 200

\* The endpoint: the engine's delete, then the response.
HttpDeleteDocument(doc_id, fault) ==
    /\ Ready
    /\ LET stored == doc_id \in DOMAIN docs
           r == RAGEngine_delete_document(backend, stored, fault)
       IN  /\ docs' = IF fault = "none" /\ stored
                      THEN [i \in DOMAIN docs \ {doc_id} |-> docs[i]]
                      ELSE docs
           /\ searchView' = IF fault = "none" /\ DeleteVisible(backend)
                            THEN docs' ELSE searchView
           /\ last' = [op |-> "DELETE /documents",
                       args |-> [doc_id |-> doc_id],
                       stored |-> stored, fault |-> fault,
                       status |-> DeleteEndpointStatus(r)]
    /\ UNCHANGED <<redis, backend, schema, nextId, inst, ga>>

\* ----------------------------------------------------------------- stats
\* Shard copies that hold the index: the primary, and the replica of the
\* default index settings (_ensure_index sets no number_of_replicas) once
\* the cluster has a second node to put it on.
ShardCopies == {1, 2}

\* OpenSearchStore.get_index_stats: document_count is ["total"]["docs"]
\* ["count"], summed over every shard copy, primary_shards is ["primaries"]
\* ["docs"]["count"]; zeros on any exception.
OpenSearchStore_get_index_stats(count, copies, fault) ==
    IF fault # "none"
    THEN [outcome |-> "ok",
          result |-> [document_count |-> 0, size_in_bytes |-> 0,
                      primary_shards |-> 0]]
    ELSE [outcome |-> "ok",
          result |-> [document_count |-> count * copies,
                      size_in_bytes |-> count * copies,
                      primary_shards |-> count]]

\* QdrantStore.get_collection_info: the counts; an exception is re-raised.
QdrantStore_get_collection_info(count, fault) ==
    IF fault # "none" THEN [outcome |-> "raise", error |-> fault]
    ELSE [outcome |-> "ok",
          result |-> [vectors_count |-> count,
                      indexed_vectors_count |-> count,
                      points_count |-> count]]

\* RAGEngine.get_stats: total_documents from the store's info; re-raises.
RAGEngine_get_stats(b, count, copies, fault) ==
    LET info == IF b = OPENSEARCH
                THEN OpenSearchStore_get_index_stats(count, copies, fault)
                ELSE QdrantStore_get_collection_info(count, fault)
    IN  IF info.outcome = "raise" THEN info
        ELSE [outcome |-> "ok",
              result |-> [total_documents |->
                              IF b = OPENSEARCH
                              THEN info.result.document_count
                              ELSE info.result.vectors_count,
                          vector_store |-> info.result]]

GetStats(copies, fault) ==
    /\ Ready
    /\ LET r == RAGEngine_get_stats(backend, Cardinality(DOMAIN searchView),
                                    copies, fault)
       IN  last' = [op |-> "get_stats", fault |-> fault,
                    outcome |-> r.outcome,
                    result |-> IF r.outcome = "ok" THEN r.result
                               ELSE r.error]
    /\ UNCHANGED <<redis, backend, schema, docs, searchView, nextId, inst, ga>>

\* ------------------------------------------------------- generate_answer
LlmModel == "gpt-4o"          \* RAGEngine(llm_model="gpt-4o")
SystemPrompt == "grounded: answer from the documents, cite [doc n]"
NoContextSystemPrompt == "no document found: answer from general knowledge"
Answers == {"answer"}         \* what the generation provider may say

\* f"{score:.2f}" of a score held in hundredths: integer part, two decimals.
FormatScore(score) == <<score \div 100, score % 100>>

BlankLine == "\n\n"

\* sep.join(parts): the parts with sep between neighbours.
RECURSIVE Join(_, _)
Join(parts, sep) ==
    IF Len(parts) <= 1 THEN parts
    ELSE <<Head(parts), sep>> \o Join(Tail(parts), sep)

\* for i, result in enumerate(search_results, 1): the block
\* "[doc i] (score:.2f)\ntext" of result i.
ContextParts(search_results) ==
    [i \in DOMAIN search_results |->
        [index |-> i,
         score |-> FormatScore(Get(search_results[i], "score", 0)),
         text |-> Get(search_results[i], "text", "")]]

\* Mutant: the blocks carry the results in the opposite order.
RAGEngine_build_context_reversed(search_results) ==
    Join([i \in DOMAIN search_results |->
             [index |-> i,
              score |-> FormatScore(
                  search_results[Len(search_results) + 1 - i].score),
              text |-> search_results[Len(search_results) + 1 - i].text]],
         BlankLine)

\* _build_context: the blocks in input order, joined by a blank line.
RAGEngine_build_context(search_results) ==
    Join(ContextParts(search_results), BlankLine)

\* The grounded message pair: _get_system_prompt, _build_user_prompt.
GroundedMessages(context, query) ==
    <<[role |-> "system", content |-> SystemPrompt],
      [role |-> "user", content |-> [context |-> context, query |-> query]]>>

\* The message pair of _generate_without_context.
NoContextMessages(query) ==
    <<[role |-> "system", content |-> NoContextSystemPrompt],
      [role |-> "user", content |-> query]>>

\* Mutant: the sources come back in the opposite order.
Sources_reversed(search_results) ==
    [i \in DOMAIN search_results |->
        LET src == search_results[Len(search_results) + 1 - i]
        IN  [text |-> src.text, score |-> src.score,
             metadata |-> src.metadata]]

\* The sources list of the grounded result.
Sources(search_results) ==
    [i \in DOMAIN search_results |->
        [text |-> search_results[i].text,
         score |-> search_results[i].score,
         metadata |-> search_results[i].metadata]]

\* Mutant: a failed request is sent a second time.
ChatCompletionsCreate_retried(calls, messages) ==
    Append(Append(calls, messages), messages)

\* openai_client.chat.completions.create(...): one request to the
\* generation provider; calls is the list of requests sent so far.
ChatCompletionsCreate(calls, messages) == Append(calls, messages)

\* Mutant: a non-empty retrieval goes straight to the provider.
AfterRetrieval_skips_build(search_results) ==
    IF search_results = <<>> THEN "DegradedGenerate" ELSE "Generate"

\* Mutant: the empty retrieval is not told apart from a non-empty one.
AfterRetrieval_always_grounded(search_results) == "ContextBuild"

\* `if not search_results:` -- the degraded path on an empty retrieval.
AfterRetrieval(search_results) ==
    IF search_results = <<>> THEN "DegradedGenerate" ELSE "ContextBuild"

\* Mutant: retrieval answers from what the store held at construction.
SearchedView_stale(view) == <<>>

\* What a search reads: the store as it is when client.search /
\* client.query_points runs; nothing is kept from an earlier call.
SearchedView(view) == view

\* Requests of one search_documents call: _create_embedding(query) first,
\* then one store search, which an embedding failure never reaches.
RetrievalRequests(fault) ==
    [embeds |-> 1, searches |-> IF fault = "embedding" THEN 0 ELSE 1]

\* generate_answer is entered; nothing has been called yet.
GA_Start(query, organization_id, user_id, context_limit) ==
    /\ \E i \in Instances : inst[i].pc = "ready"
    /\ ga.pc = "idle"
    /\ ga' = [pc |-> "Retrieving", query |-> query,
              organization_id |-> organization_id, user_id |-> user_id,
              context_limit |-> context_limit, calls |-> <<>>]
    /\ UNCHANGED <<redis, backend, schema, docs, searchView, nextId, inst,
                   last>>

\* Step 1: search_documents(query, organization_id, user_id, limit).
GA_Retrieve(fault) ==
    /\ ga.pc = "Retrieving"
    /\ IF fault # "none"
       THEN ga' = [pc |-> "Failed", query |-> ga.query, calls |-> ga.calls,
                   requests |-> RetrievalRequests(fault),
                   failed_at |-> "Retrieving", error |-> fault]
       ELSE LET r == RAGEngine_search_documents(backend,
                         SearchedView(searchView), ga.query,
                         ga.organization_id, ga.user_id, NoTags,
                         ga.context_limit)
            IN  ga' = [pc |-> AfterRetrieval(r),
                       query |-> ga.query,
                       context_limit |-> ga.context_limit,
                       requests |-> RetrievalRequests(fault),
                       seen |-> [organization_id |-> ga.organization_id,
                                 handed_out |-> nextId,
                                 stored |-> Cardinality(DOMAIN searchView)],
                       search_results |-> r, calls |-> ga.calls]
    /\ UNCHANGED <<redis, backend, schema, docs, searchView, nextId, inst,
                   last>>

\* `if not search_results: return self._generate_without_context(query)`.
GA_DegradedGenerate(fault, answer) ==
    /\ ga.pc = "DegradedGenerate"
    /\ LET calls == ChatCompletionsCreate(ga.calls,
                                          NoContextMessages(ga.query))
       IN  ga' = IF fault # "none"
                 THEN [pc |-> "Failed", query |-> ga.query, calls |-> calls,
                       requests |-> ga.requests, seen |-> ga.seen,
                       search_results |-> ga.search_results,
                       failed_at |-> "DegradedGenerate",
                       error |-> "generation"]
                 ELSE [pc |-> "Done", query |-> ga.query, calls |-> calls,
                       requests |-> ga.requests, seen |-> ga.seen,
                       search_results |-> ga.search_results,
                       path |-> "degraded", provider_answer |-> answer,
                       result |-> [answer |-> answer, sources |-> <<>>,
                                   model |-> LlmModel]]
    /\ UNCHANGED <<redis, backend, schema, docs, searchView, nextId, inst,
                   last>>

\* Steps 2 and 3: _build_context and the message pair.
GA_ContextBuild ==
    /\ ga.pc = "ContextBuild"
    /\ ga' = [pc |-> "Generate", query |-> ga.query,
              context_limit |-> ga.context_limit,
              requests |-> ga.requests, seen |-> ga.seen,
              search_results |-> ga.search_results, calls |-> ga.calls,
              messages |-> GroundedMessages(
                  RAGEngine_build_context(ga.search_results), ga.query)]
    /\ UNCHANGED <<redis, backend, schema, docs, searchView, nextId, inst,
                   last>>

\* Steps 4 to 6: chat.completions.create, then the result.
GA_Generate(fault, answer) ==
    /\ ga.pc = "Generate"
    /\ LET calls == ChatCompletionsCreate(ga.calls, ga.messages)
       IN  ga' = IF fault # "none"
                 THEN [pc |-> "Failed", query |-> ga.query, calls |-> calls,
                       requests |-> ga.requests, seen |-> ga.seen,
                       search_results |-> ga.search_results,
                       failed_at |-> "Generate", error |-> "generation"]
                 ELSE [pc |-> "Done", query |-> ga.query, calls |-> calls,
                       requests |-> ga.requests, seen |-> ga.seen,
                       context_limit |-> ga.context_limit,
                       search_results |-> ga.search_results,
                       path |-> "grounded", provider_answer |-> answer,
                       result |-> [answer |-> answer,
                                   sources |-> Sources(ga.search_results),
                                   model |-> LlmModel]]
    /\ UNCHANGED <<redis, backend, schema, docs, searchView, nextId, inst,
                   last>>

\* The caller has the result (or the exception).
GA_Return ==
    /\ ga.pc \in {"Done", "Failed"}
    /\ ga' = IdleAnswer
    /\ UNCHANGED <<redis, backend, schema, docs, searchView, nextId, inst,
                   last>>

\* ----------------------------------------------------------- RedisClient
MaxConnections == 3   \* connections from_url opens per run

\* connect(): the held client if there is one; otherwise from_url, whose
\* value is assigned to self._client at once, then ping.  An exception of
\* either is logged and re-raised; nothing resets self._client.
RedisClient_connect(r, fault) ==
    IF r.client # NoClient
    THEN [redis |-> r, outcome |-> "ok", result |-> r.client]
    ELSE IF fault = "from_url"
    THEN [redis |-> r, outcome |-> "raise", error |-> fault]
    ELSE LET c == r.made + 1
             held == [r EXCEPT !.client = c, !.made = c]
         IN  IF fault = "ping"
             THEN [redis |-> held, outcome |-> "raise", error |-> fault]
             ELSE [redis |-> [held EXCEPT !.pinged = @ \cup {c}],
                   outcome |-> "ok", result |-> c]

\* get_client(): connect() when there is no client, then self._client.
RedisClient_get_client(r, fault) ==
    IF r.client = NoClient
    THEN LET c == RedisClient_connect(r, fault)
         IN  IF c.outcome = "raise" THEN c
             ELSE [redis |-> c.redis, outcome |-> "ok",
                   result |-> c.redis.client]
    ELSE [redis |-> r, outcome |-> "ok", result |-> r.client]

\* disconnect(): close() and self._client = None when a client is held; a
\* close() that raises leaves the client in place.
RedisClient_disconnect(r, fault) ==
    IF r.client = NoClient
    THEN [redis |-> r, outcome |-> "ok", result |-> NoClient]
    ELSE IF fault = "close"
    THEN [redis |-> r, outcome |-> "raise", error |-> fault]
    ELSE [redis |-> [r EXCEPT !.client = NoClient,
                              !.closed = @ \cup {r.client}],
          outcome |-> "ok", result |-> NoClient]

\* What the caller of a RedisClient method gets; held is the client the
\* wrapper held when called.
RedisAnswer(op, held, fault, r) ==
    [op |-> op, held |-> held, fault |-> fault, outcome |-> r.outcome,
     result |-> IF r.outcome = "ok" THEN r.result ELSE NoClient]

Connect(fault) ==
    /\ last = NoCall
    /\ redis.made < MaxConnections
    /\ LET r == RedisClient_connect(redis, fault)
       IN  /\ redis' = r.redis
           /\ last' = RedisAnswer("connect", redis.client, fault, r)
    /\ UNCHANGED <<backend, schema, docs, searchView, nextId, inst, ga>>

GetClient(fault) ==
    /\ last = NoCall
    /\ redis.made < MaxConnections
    /\ LET r == RedisClient_get_client(redis, fault)
       IN  /\ redis' = r.redis
           /\ last' = RedisAnswer("get_client", redis.client, fault, r)
    /\ UNCHANGED <<backend, schema, docs, searchView, nextId, inst, ga>>

Disconnect(fault) ==
    /\ last = NoCall
    /\ LET r == RedisClient_disconnect(redis, fault)
       IN  /\ redis' = r.redis
           /\ last' = RedisAnswer("disconnect", redis.client, fault, r)
    /\ UNCHANGED <<backend, schema, docs, searchView, nextId, inst, ga>>

ConnectFaults == {"none", "from_url", "ping"}

NextRedis ==
    \/ \E fault \in ConnectFaults : Connect(fault)
    \/ \E fault \in ConnectFaults : GetClient(fault)
    \/ \E fault \in {"none", "close"} : Disconnect(fault)
    \/ Return

SpecRedis == Init /\ [][NextRedis]_vars

\* ----------------------------------------------------- specifications
Faults == {"none", "embedding", "store"}
StoreFaults == {"none", "store"}
GenerationFaults == {"none", "generation"}

\* The engine's API on a constructed store.
Next ==
    \/ \E in \in AddInputs, fault \in Faults :
          AddDocument(in.text, in.metadata, in.organization_id, in.user_id,
                      in.tags, fault)
    \/ \E query \in {"deadline?"}, organization_id \in Orgs,
          scope \in SearchScopes, limit \in Limits, fault \in Faults :
          SearchDocuments(query, organization_id, scope.user_id, scope.tags,
                          limit, fault)
    \/ \E query \in {"deadline?"}, organization_id \in Orgs,
          limit \in Limits, fault \in Faults :
          OpenSearchSearch(query, organization_id, NoUser, NoTags, limit,
                           FALSE, fault)
    \/ \E query \in {"deadline?"}, organization_id \in Orgs,
          limit \in Limits, score_threshold \in Thresholds, fault \in Faults :
          QdrantSearch(query, organization_id, NoUser, limit,
                       score_threshold, fault)
    \/ \E doc_id \in DocIds, fault \in StoreFaults :
          DeleteDocument(doc_id, fault)
    \/ \E doc_id \in DocIds, fault \in StoreFaults :
          HttpDeleteDocument(doc_id, fault)
    \/ \E copies \in ShardCopies, fault \in StoreFaults :
          GetStats(copies, fault)
    \/ Refresh
    \/ Return

Spec == Init /\ [][Next]_vars

\* Store instances constructed, concurrently or one after the other, against
\* one store, and documents written once an instance is up.
SchemaInputs ==
    {[text |-> "deadline near", metadata |-> Meta,
      organization_id |-> "org_1", user_id |-> NoUser, tags |-> NoTags]}

NextSchema ==
    \/ \E i \in Instances, fault \in StoreFaults : EnsureCheck(i, fault)
    \/ \E i \in Instances, fault \in StoreFaults : EnsureCreate(i, fault)
    \/ \E in \in SchemaInputs :
          AddDocument(in.text, in.metadata, in.organization_id, in.user_id,
                      in.tags, "none")
    \/ \E doc_id \in DocIds : DeleteDocument(doc_id, "none")
    \/ Return

SpecSchema == InitSchema /\ [][NextSchema]_vars

\* generate_answer calls, with documents added and deleted by other calls
\* meanwhile.
AnswerInputs ==
    {[text |-> t, metadata |-> Meta, organization_id |-> "org_1",
      user_id |-> NoUser, tags |-> NoTags] :
        t \in {"deadline near", "deadline far"}}

NextAnswer ==
    \/ \E query \in QueryTexts, organization_id \in Orgs,
          context_limit \in Limits :
          GA_Start(query, organization_id, NoUser, context_limit)
    \/ \E fault \in Faults : GA_Retrieve(fault)
    \/ \E fault \in GenerationFaults, answer \in Answers :
          GA_DegradedGenerate(fault, answer)
    \/ GA_ContextBuild
    \/ \E fault \in GenerationFaults, answer \in Answers :
          GA_Generate(fault, answer)
    \/ GA_Return
    \/ \E in \in AnswerInputs :
          AddDocument(in.text, in.metadata, in.organization_id, in.user_id,
                      in.tags, "none")
    \/ \E doc_id \in DocIds : DeleteDocument(doc_id, "none")
    \/ Return

SpecAnswer == Init /\ [][NextAnswer]_vars

\* Callers of several users, and one that sends an empty organization_id
\* (organization_id: str = Field(...) accepts any string).
NoOrg == ""
TenancyUsers == {NoUser, "u1", "u2"}

TenancyInputs ==
    {[text |-> "deadline near", metadata |-> Meta, organization_id |-> o,
      user_id |-> u, tags |-> NoTags] :
        o \in {"org_1"}, u \in TenancyUsers}
    \cup
    {[text |-> "deadline near", metadata |-> Meta, organization_id |-> NoOrg,
      user_id |-> NoUser, tags |-> NoTags]}

NextTenancy ==
    \/ \E in \in TenancyInputs :
          AddDocument(in.text, in.metadata, in.organization_id, in.user_id,
                      in.tags, "none")
    \/ \E organization_id \in {NoOrg, "org_1"}, user_id \in TenancyUsers,
          limit \in Limits :
          SearchDocuments("deadline?", organization_id, user_id, NoTags,
                          limit, "none")
    \/ \E user_id \in TenancyUsers, limit \in Limits :
          OpenSearchSearch("deadline?", "org_1", user_id, NoTags, limit,
                           FALSE, "none")
    \/ \E user_id \in TenancyUsers, limit \in Limits :
          QdrantSearch("deadline?", "org_1", user_id, limit, 0, "none")
    \/ \E doc_id \in DocIds : DeleteDocument(doc_id, "none")
    \/ Return

SpecTenancy == Init /\ [][NextTenancy]_vars

\* Callers whose metadata has keys of its own choosing, among them names
\* the stores use themselves (metadata: Dict[str, Any]).
MetadataMaps ==
    {Meta,
     [title |-> "doc", text |-> "shadow"],
     [title |-> "doc", user_id |-> "u2"],
     [title |-> "doc", organization_id |-> "org_2"]}

NextMetadata ==
    \/ \E metadata \in MetadataMaps, user_id \in {NoUser, "u1"} :
          AddDocument("deadline near", metadata, "org_1", user_id, NoTags,
                      "none")
    \/ \E organization_id \in Orgs, user_id \in TenancyUsers,
          limit \in Limits :
          SearchDocuments("deadline?", organization_id, user_id, NoTags,
                          limit, "none")
    \/ \E doc_id \in DocIds : DeleteDocument(doc_id, "none")
    \/ Return

SpecMetadata == Init /\ [][NextMetadata]_vars

\* ================================================================ claims
SearchOps == {"search_documents", "opensearch_search", "qdrant_search"}

SearchAnswered == last.op \in SearchOps /\ last.outcome = "ok"

\* C1  Tenant isolation: whatever was added and deleted before, by whichever
\* tenants, every result of a search issued with organization_id = A, on
\* either store, is a document stored with organization_id = A.
C1_TenantIsolation ==
    SearchAnswered =>
        \A n \in DOMAIN last.result :
            /\ last.result[n].id \in DOMAIN docs
            /\ OrgOf(backend, docs[last.result[n].id])
                   = last.args.organization_id

\* C1 witness: a search came back non-empty while the store also holds a
\* document of another organization with the very text of a returned one.
C1_Witness ==
    /\ SearchAnswered
    /\ last.result # <<>>
    /\ \E j \in DOMAIN docs :
          /\ OrgOf(backend, docs[j]) # last.args.organization_id
          /\ j \notin Ids(last.result)
          /\ \E n \in DOMAIN last.result :
                IF backend = OPENSEARCH
                THEN docs[j]["text"] = last.result[n].text
                ELSE docs[j].payload["text"] = last.result[n].text

\* C2  Degraded mode: a generate_answer whose retrieval came back empty calls
\* the generation provider with the no-document system message and the raw
\* query; the empty retrieval is no error (the call fails only if that very
\* provider call fails), and the result carries sources = [], the provider's
\* text and the configured model.
C2_DegradedMode ==
    (/\ ga.pc \in {"DegradedGenerate", "ContextBuild", "Generate",
                   "Done", "Failed"}
     /\ "search_results" \in DOMAIN ga
     /\ ga.search_results = <<>>) =>
        /\ ga.pc \in {"DegradedGenerate", "Done", "Failed"}
        /\ ga.pc = "DegradedGenerate" => ga.calls = <<>>
        /\ ga.pc \in {"Done", "Failed"} =>
              /\ Len(ga.calls) = 1
              /\ Len(ga.calls[1]) = 2
              /\ ga.calls[1][1] = [role |-> "system",
                                   content |-> NoContextSystemPrompt]
              /\ ga.calls[1][2] = [role |-> "user", content |-> ga.query]
        /\ ga.pc = "Failed" =>
              ga.failed_at = "DegradedGenerate" /\ ga.error = "generation"
        /\ ga.pc = "Done" =>
              ga.result = [answer |-> ga.provider_answer, sources |-> <<>>,
                           model |-> "gpt-4o"]

\* C2 witness: a degraded answer was returned while the store holds
\* documents (none of them eligible for this query).
C2_Witness ==
    /\ ga.pc = "Done"
    /\ ga.search_results = <<>>
    /\ ga.result.sources = <<>>
    /\ DOMAIN docs # {}

\* C3  delete_document answers false, without raising, for an id that is not
\* stored, and true only when a stored document was removed.
C3_DeleteMissingIsFalse ==
    last.op = "delete_document" =>
        /\ last.outcome = "ok"
        /\ ~last.stored => last.result = FALSE
        /\ last.result = TRUE => (last.stored /\ last.args.doc_id \notin DOMAIN docs)

\* C4  A store failure during delete_document or get_stats reaches the
\* caller of the RAGEngine method as an exception, not as a normal value.
C4_StoreErrorsPropagate ==
    (last.op \in {"delete_document", "get_stats"} /\ last.fault # "none") =>
        last.outcome = "raise"

\* C5  An instance whose create request is answered "already exists"
\* completes its construction.
C5_SchemaRaceTolerated ==
    \A i \in Instances :
        inst[i].answer = "already_exists" => inst[i].pc = "ready"

\* C6  Idempotent schema: an ensure-schema run that finds the schema in place
\* ends without error and without a create request; the store keeps exactly
\* one schema, and the run leaves the stored documents as they were.
C6_SeenSchemaIsLeftAlone ==
    /\ schema <= 1
    /\ \A i \in Instances :
          inst[i].sawSchema =>
              /\ inst[i].pc = "ready"
              /\ inst[i].creates = 0
              /\ inst[i].error = "none"
              /\ schema = 1

C6_EnsureStep ==
    \E i \in Instances : inst[i].pc \in {"new", "creating"}
                         /\ inst'[i] # inst[i]

C6_IdempotentSchema ==
    /\ []C6_SeenSchemaIsLeftAlone
    /\ [][C6_EnsureStep =>
            /\ docs' = docs
            /\ searchView' = searchView
            /\ (schema >= 1 => schema' = schema)]_vars

\* C6 witness: a second instance came up on the schema the first had
\* created, asked for no create, and the store holds documents.
C6_Witness ==
    \E i, j \in Instances :
        /\ inst[j].answer = "created"
        /\ inst[i].sawSchema /\ inst[i].pc = "ready" /\ inst[i].creates = 0
        /\ schema = 1
        /\ DOMAIN docs # {}

\* C7  Dense threshold cutoff: every result of QdrantStore.search carries the
\* cosine score of its document and that score is at least the threshold in
\* force: the argument, or 0.3 when the orchestrator calls.
C7_ThresholdInForce ==
    IF last.op = "qdrant_search" THEN last.args.score_threshold ELSE 30

C7_DenseThreshold ==
    (/\ backend = QDRANT
     /\ last.op \in {"qdrant_search", "search_documents"}
     /\ last.outcome = "ok") =>
        \A n \in DOMAIN last.result :
            /\ last.result[n].score >= C7_ThresholdInForce
            /\ last.result[n].score =
                   Cosine(Embedding(last.args.query),
                          docs[last.result[n].id].vector)

\* C7 witness: a dense search returned something and left out a document of
\* the same organization whose score is below the threshold.
C7_Witness ==
    /\ backend = QDRANT
    /\ last.op \in {"qdrant_search", "search_documents"}
    /\ last.outcome = "ok"
    /\ last.result # <<>>
    /\ Len(last.result) < last.args.limit
    /\ \E j \in DOMAIN docs :
          /\ docs[j].payload["organization_id"] = last.args.organization_id
          /\ Cosine(Embedding(last.args.query), docs[j].vector)
                 < C7_ThresholdInForce
          /\ j \notin Ids(last.result)
\* The documents of the store that pass the filters of the last search,
\* read off the stored fields.
C8_PassesFilters(i) ==
    /\ docs[i]["organization_id"] = last.args.organization_id
    /\ last.args.user_id # NoUser =>
          ("user_id" \in DOMAIN docs[i]
           /\ docs[i]["user_id"] = last.args.user_id)
    /\ last.args.tags # NoTags =>
          ("tags" \in DOMAIN docs[i]
           /\ docs[i]["tags"] \cap last.args.tags # {})

C8_KeywordMatch(i) ==
    Terms(last.args.query) \cap Terms(docs[i]["text"]) # {}

C8_VectorCandidate(i) ==
    i \in KnnCandidates(docs, Embedding(last.args.query),
                        2 * last.args.limit)

C8_Matching ==
    {i \in DOMAIN docs :
        C8_PassesFilters(i) /\ (C8_KeywordMatch(i) \/ C8_VectorCandidate(i))}

\* C8  Hybrid union semantics: when no more than limit documents pass the
\* filters and match by keyword or as a vector candidate, the hybrid search
\* returns exactly those documents: either signal suffices.
C8_HybridUnion ==
    (/\ backend = OPENSEARCH
     /\ last.op = "search_documents"
     /\ last.outcome = "ok"
     /\ Cardinality(C8_Matching) <= last.args.limit) =>
        Ids(last.result) = C8_Matching

\* C8 witness: the hybrid search returned a document that matches by
\* keyword and is not among the vector candidates.
C8_Witness ==
    /\ backend = OPENSEARCH
    /\ last.op = "search_documents"
    /\ last.outcome = "ok"
    /\ Cardinality(C8_Matching) <= last.args.limit
    /\ \E n \in DOMAIN last.result :
          /\ C8_KeywordMatch(last.result[n].id)
          /\ ~C8_VectorCandidate(last.result[n].id)

\* C9  Tag filter capability gap: through the orchestrator, a non-empty tags
\* argument changes nothing on the dense store (the results are those of the
\* dense search without tags, no error), while on the hybrid store every
\* result carries one of the requested tags.
C9_TagFilterGap ==
    (/\ last.op = "search_documents"
     /\ last.outcome = "ok"
     /\ last.args.tags # NoTags) =>
        IF backend = QDRANT
        THEN last.result =
                 QdrantStore_search(searchView, last.args.query,
                                    last.args.organization_id,
                                    last.args.user_id, last.args.limit, 30)
        ELSE \A n \in DOMAIN last.result :
                /\ "tags" \in DOMAIN docs[last.result[n].id]
                /\ docs[last.result[n].id]["tags"] \cap last.args.tags # {}

\* C9 witness: a tagged search on the hybrid store returned a tagged
\* document and left out an untagged one of the same organization that
\* matches the query.
C9_Witness ==
    /\ backend = OPENSEARCH
    /\ last.op = "search_documents"
    /\ last.outcome = "ok"
    /\ last.args.tags # NoTags
    /\ last.result # <<>>
    /\ \E j \in DOMAIN docs :
          /\ docs[j]["organization_id"] = last.args.organization_id
          /\ "tags" \notin DOMAIN docs[j]
          /\ Terms(last.args.query) \cap Terms(docs[j]["text"]) # {}
          /\ j \notin Ids(last.result)

\* A search for a stored document's own text under its own organization,
\* with room for every document: it satisfies filters and relevance.
C10_FindsItself(i) ==
    LET text == IF backend = OPENSEARCH THEN docs[i]["text"]
                ELSE docs[i].payload["text"]
    IN  i \in Ids(RAGEngine_search_documents(backend, searchView, text,
                      OrgOf(backend, docs[i]), NoUser, NoTags, MaxDocs))

\* C10  Immediate searchability: between calls there is no state in which a
\* stored document is missing from what searches read; a document whose id
\* add_document has returned is found by a search it qualifies for.
C10_ImmediatelySearchable ==
    /\ \A i \in DOMAIN docs :
          /\ i \in DOMAIN searchView
          /\ searchView[i] = docs[i]
          /\ C10_FindsItself(i)
    /\ (last.op = "add_document" /\ last.outcome = "ok") =>
          last.result \in DOMAIN searchView

\* C10 witness: add_document has just returned an id and a search finds it.
C10_Witness ==
    /\ last.op = "add_document"
    /\ last.outcome = "ok"
    /\ last.result \in DOMAIN docs
    /\ C10_FindsItself(last.result)

\* C11  Exactly one generation call: a generate_answer that returned a
\* result, grounded or degraded, sent one request to the generation
\* provider; a call that failed in generation sent one (no retry), one that
\* failed in retrieval none; never more than one within a call.
C11_ExactlyOneGeneration ==
    /\ Len(ga.calls) <= 1
    /\ ga.pc = "Done" => Len(ga.calls) = 1
    /\ ga.pc = "Failed" =>
          Len(ga.calls) = (IF ga.failed_at = "Retrieving" THEN 0 ELSE 1)

\* C11 witness: the generation request of a grounded call failed and the
\* call ended with that one request sent.
C11_Witness ==
    /\ ga.pc = "Failed"
    /\ ga.failed_at = "Generate"
    /\ ga.search_results # <<>>
    /\ Len(ga.calls) = 1

\* The stage transitions of one generate_answer call.
C12_Transitions ==
    {<<"idle", "Retrieving">>,
     <<"Retrieving", "DegradedGenerate">>, <<"Retrieving", "ContextBuild">>,
     <<"Retrieving", "Failed">>,
     <<"DegradedGenerate", "Done">>, <<"DegradedGenerate", "Failed">>,
     <<"ContextBuild", "Generate">>,
     <<"Generate", "Done">>, <<"Generate", "Failed">>,
     <<"Done", "idle">>, <<"Failed", "idle">>}

C12_StageStep ==
    ga'.pc # ga.pc =>
        /\ <<ga.pc, ga'.pc>> \in C12_Transitions
        /\ ga'.pc = "DegradedGenerate" => ga'.search_results = <<>>
        /\ ga'.pc = "ContextBuild" => ga'.search_results # <<>>
        /\ ga'.pc \in {"DegradedGenerate", "ContextBuild"} => ga'.calls = <<>>
        /\ ga'.pc = "Failed" => ga'.failed_at = ga.pc

C12_StageState ==
    /\ ga.calls # <<>> => "search_results" \in DOMAIN ga
    /\ ga.pc = "Generate" => "messages" \in DOMAIN ga
    /\ ga.pc = "Failed" =>
          /\ "result" \notin DOMAIN ga
          /\ ga.failed_at \in {"Retrieving", "DegradedGenerate", "Generate"}
          /\ ga.failed_at = "Retrieving" =>
                (ga.calls = <<>> /\ ga.error \in {"embedding", "store"})
          /\ ga.failed_at # "Retrieving" => ga.error = "generation"
    /\ ga.pc = "Done" => "result" \in DOMAIN ga

\* C12  generate_answer moves Retrieving -> DegradedGenerate -> Done on an
\* empty retrieval and Retrieving -> ContextBuild -> Generate -> Done
\* otherwise, in that order; no generation request precedes the end of
\* retrieval; a failure while Retrieving ends the call with the embedding or
\* store error and no generation request; a failure in DegradedGenerate or
\* Generate ends the call with that error and without a result.
C12_StateMachine == []C12_StageState /\ [][C12_StageStep]_vars

\* C12 witness: retrieval failed on the store while documents are stored,
\* and the call ended there.
C12_Witness ==
    /\ ga.pc = "Failed"
    /\ ga.failed_at = "Retrieving"
    /\ ga.error = "store"
    /\ ga.calls = <<>>
    /\ DOMAIN docs # {}

\* C13  On the grounded path sources has the length and order of the search
\* results of the retrieval step, record i carrying the text, score and
\* metadata of result i; at most context_limit of them; model is the
\* engine's configured model.
C13_SourcesMapping ==
    (ga.pc = "Done" /\ ga.path = "grounded") =>
        /\ Len(ga.result.sources) = Len(ga.search_results)
        /\ Len(ga.result.sources) <= ga.context_limit
        /\ \A i \in DOMAIN ga.search_results :
              /\ ga.result.sources[i].text = ga.search_results[i].text
              /\ ga.result.sources[i].score = ga.search_results[i].score
              /\ ga.result.sources[i].metadata
                     = ga.search_results[i].metadata
              /\ DOMAIN ga.result.sources[i] = {"text", "score", "metadata"}
        /\ ga.result.model = LlmModel

\* C13 witness: a grounded answer with two sources of different texts.
C13_Witness ==
    /\ ga.pc = "Done"
    /\ ga.path = "grounded"
    /\ Len(ga.result.sources) = 2
    /\ ga.result.sources[1].text # ga.result.sources[2].text

\* A step in which an add_document call ends with an exception.
C14_AddRaised ==
    last = NoCall /\ last'.op = "add_document" /\ last'.outcome = "raise"

\* C14  No partial success in ingestion: an add_document whose embedding
\* call fails sends no write; one whose write fails sent it once (no retry,
\* no compensating request); either way the call raises, returns no id, and
\* the stored and the searchable documents are what they were.
C14_NoPartialIngestion ==
    [][C14_AddRaised =>
          /\ docs' = docs
          /\ searchView' = searchView
          /\ "result" \notin DOMAIN last'
          /\ last'.error \in {"embedding", "store"}
          /\ last'.error = "embedding" => last'.writes = 0
          /\ last'.error = "store" => last'.writes = 1]_vars

\* C14 witness: a write failed after its embedding succeeded, on a store
\* that holds documents.
C14_Witness ==
    /\ last.op = "add_document"
    /\ last.outcome = "raise"
    /\ last.error = "store"
    /\ last.writes = 1
    /\ DOMAIN docs # {}

\* C15  Every stored document has a non-empty organization_id and no search
\* returns a document without one: an add_document with organization_id ""
\* stores nothing.
C15_NonEmptyOrganization ==
    /\ \A i \in DOMAIN docs : OrgOf(backend, docs[i]) # ""
    /\ SearchAnswered =>
          \A n \in DOMAIN last.result :
              OrgOf(backend, docs[last.result[n].id]) # ""

\* The documents eligible for the last search had it been issued without
\* user_id: they pass the remaining filters and the relevance criteria.
C16_EligibleWithoutUser ==
    LET a == last.args
    IN  CASE last.op = "qdrant_search" \/
             (last.op = "search_documents" /\ backend = QDRANT) ->
               {i \in DOMAIN searchView :
                   /\ searchView[i].payload["organization_id"]
                          = a.organization_id
                   /\ Cosine(Embedding(a.query), searchView[i].vector)
                          >= (IF last.op = "qdrant_search"
                              THEN a.score_threshold ELSE 30)}
          [] last.op = "opensearch_search" /\ ~a.use_hybrid ->
               VectorOnlyHits(searchView, a.query, a.organization_id, NoUser,
                              a.tags, a.limit)
          [] OTHER ->
               HybridHits(searchView, a.query, a.organization_id, NoUser,
                          a.tags, a.limit)

C17_Step ==
    /\ \A i \in DOMAIN docs \cap DOMAIN docs' : docs'[i] = docs[i]
    /\ \A i \in DOMAIN searchView \cap DOMAIN searchView' :
          searchView'[i] = searchView[i]
    /\ \A i \in DOMAIN docs' \ DOMAIN docs : i > nextId
    /\ nextId' >= nextId

C17_AsWritten ==
    (last.op = "add_document" /\ last.outcome = "ok") =>
        /\ last.result \in DOMAIN docs
        /\ docs[last.result] =
               IF backend = OPENSEARCH
               THEN OpenSearchDocument(last.args.text, last.args.metadata,
                                       last.args.organization_id,
                                       last.args.user_id, last.args.tags)
               ELSE QdrantPoint(last.args.text, last.args.metadata,
                                last.args.organization_id, last.args.user_id)

C17_NeverMutated == []C17_AsWritten /\ [][C17_Step]_vars

\* C17 witness: an add_document returned while the store holds an earlier
\* document and an earlier id is gone.
C17_Witness ==
    /\ last.op = "add_document"
    /\ last.outcome = "ok"
    /\ \E i \in DOMAIN docs : i < last.result
    /\ \E i \in 1 .. nextId : i \notin DOMAIN docs

\* C18  Hard delete: no search returns an id that is no longer stored, and
\* a delete_document of an id that was handed out and has been removed
\* answers false.
C18_HardDelete ==
    /\ SearchAnswered => Ids(last.result) \subseteq DOMAIN docs
    /\ (/\ last.op = "delete_document"
        /\ last.fault = "none"
        /\ last.args.doc_id <= nextId
        /\ ~last.stored) => last.result = FALSE

\* C19  search_documents hands back the list of the bound store's search
\* for the same arguments: same elements, same order.
C19_Passthrough ==
    (last.op = "search_documents" /\ last.outcome = "ok") =>
        last.result =
            IF backend = OPENSEARCH
            THEN OpenSearchStore_search(searchView, last.args.query,
                     last.args.organization_id, last.args.user_id,
                     last.args.tags, last.args.limit, TRUE)
            ELSE QdrantStore_search(searchView, last.args.query,
                     last.args.organization_id, last.args.user_id,
                     last.args.limit, DefaultScoreThreshold)

\* C19 witness: search_documents returned two results of different scores.
C19_Witness ==
    /\ last.op = "search_documents"
    /\ last.outcome = "ok"
    /\ Len(last.result) = 2
    /\ last.result[1].score > last.result[2].score

\* C20  With the dense store bound, an add_document called with tags
\* returns an id and stores the point the call without tags would store;
\* no stored point and no search result carries tags.
C20_TagsDroppedOnDenseAdd ==
    backend = QDRANT =>
        /\ \A i \in DOMAIN docs :
              /\ DOMAIN docs[i] = {"vector", "payload"}
              /\ "tags" \notin DOMAIN docs[i].payload
        /\ (/\ last.op = "add_document"
            /\ last.outcome = "ok"
            /\ last.args.tags # NoTags) =>
              /\ last.result \in DOMAIN docs
              /\ docs[last.result] =
                     QdrantPoint(last.args.text, last.args.metadata,
                                 last.args.organization_id,
                                 last.args.user_id)
        /\ SearchAnswered =>
              \A n \in DOMAIN last.result :
                  /\ "tags" \notin DOMAIN last.result[n]
                  /\ "tags" \notin DOMAIN last.result[n].metadata

\* C20 witness: on the dense store an add_document with tags returned an
\* id.
C20_Witness ==
    /\ backend = QDRANT
    /\ last.op = "add_document"
    /\ last.outcome = "ok"
    /\ last.args.tags # NoTags
    /\ last.result \in DOMAIN docs

\* The retrieval step of a generate_answer call completes.
C21_RetrieveStep ==
    ga.pc = "Retrieving" /\ ga'.pc \in {"DegradedGenerate", "ContextBuild"}

C21_Requests ==
    /\ "requests" \in DOMAIN ga => ga.requests.embeds = 1
    /\ "search_results" \in DOMAIN ga => ga.requests.searches = 1
    /\ ga.pc = "Done" => Len(ga.calls) = 1

\* C21  No caching across calls: every retrieval issues one embedding call
\* and one store search and is answered from the store as it then is, every
\* answered generate_answer one generation call on top; a call made once the
\* matching documents are gone takes the degraded path, one made once a
\* matching document is there the grounded path.
C21_NoCaching ==
    /\ []C21_Requests
    /\ [][C21_RetrieveStep =>
            /\ ga'.search_results =
                   RAGEngine_search_documents(backend, searchView, ga.query,
                       ga.organization_id, ga.user_id, NoTags,
                       ga.context_limit)
            /\ ga'.pc = (IF ga'.search_results = <<>>
                         THEN "DegradedGenerate" ELSE "ContextBuild")]_vars

\* C21 witness: on the hybrid store a degraded answer to "deadline?" was
\* given by a retrieval that ran when every document (each of which matched)
\* had been deleted again.
C21_Witness ==
    /\ backend = OPENSEARCH
    /\ ga.pc = "Done"
    /\ ga.path = "degraded"
    /\ ga.query = "deadline?"
    /\ ga.seen.organization_id = "org_1"
    /\ ga.seen.handed_out >= 1
    /\ ga.seen.stored = 0

\* The embedding held under a stored id.
C22_StoredEmbedding(i) ==
    IF backend = OPENSEARCH THEN docs[i]["embedding"] ELSE docs[i].vector

\* C22  Each add_document asks for the embedding of its text once, before
\* the write: a call whose embedding failed sent no write, and the document
\* a successful call stored carries the embedding of that call's text.
C22_EmbedOnceThenWrite ==
    last.op = "add_document" =>
        /\ last.embeds = 1
        /\ last.outcome = "raise" =>
              last.writes = (IF last.error = "embedding" THEN 0 ELSE 1)
        /\ last.outcome = "ok" =>
              /\ last.writes = 1
              /\ C22_StoredEmbedding(last.result) = Embedding(last.args.text)

\* C22 witness: a second document was stored with the embedding of its own
\* text, which differs from the embedding of the first.
C22_Witness ==
    /\ last.op = "add_document"
    /\ last.outcome = "ok"
    /\ last.embeds = 1
    /\ C22_StoredEmbedding(last.result) = Embedding(last.args.text)
    /\ \E i \in DOMAIN docs :
          C22_StoredEmbedding(i) # C22_StoredEmbedding(last.result)

\* The context handed to the provider in the grounded user message.
C23_Context == ga.messages[2].content.context

\* C23  _build_context emits one block per search result in input order,
\* block i labelled i (from 1) with the score and text of result i, nothing
\* dropped, merged or re-sorted: n results give n blocks with one blank line
\* between neighbours.
C23_BuildContext ==
    ga.pc = "Generate" =>
        LET n == Len(ga.search_results)
        IN  /\ Len(C23_Context) = 2 * n - 1
            /\ \A i \in 1 .. n :
                  C23_Context[2 * i - 1] =
                      [index |-> i,
                       score |-> <<ga.search_results[i].score \div 100,
                                   ga.search_results[i].score % 100>>,
                       text |-> ga.search_results[i].text]
            /\ \A i \in 1 .. n - 1 : C23_Context[2 * i] = "\n\n"

\* C23 witness: the context of two results with different scores.
C23_Witness ==
    /\ ga.pc = "Generate"
    /\ Len(ga.search_results) = 2
    /\ ga.search_results[1].score > ga.search_results[2].score
    /\ Len(C23_Context) = 3

\* A search answered by the dense store, and the threshold it ran with.
C24_DenseSearch ==
    /\ backend = QDRANT
    /\ last.op \in {"qdrant_search", "search_documents"}
    /\ last.outcome = "ok"

C24_Threshold ==
    IF last.op = "qdrant_search" THEN last.args.score_threshold
    ELSE DefaultScoreThreshold

C24_Score(i) == Cosine(Embedding(last.args.query), searchView[i].vector)

\* The stored documents that pass the tenant/user filter.
C24_Filtered ==
    {i \in DOMAIN searchView :
        /\ searchView[i].payload["organization_id"]
               = last.args.organization_id
        /\ last.args.user_id # NoUser =>
               Get(searchView[i].payload, "user_id", NoUser)
                   = last.args.user_id}

C24_Eligible == {i \in C24_Filtered : C24_Score(i) >= C24_Threshold}

\* C24  Threshold before limit: the dense search returns min(limit, n)
\* distinct documents out of the n that pass the filter and reach the
\* threshold, best first, and none that it leaves out scores higher than one
\* it returns.
C24_ThresholdBeforeLimit ==
    C24_DenseSearch =>
        /\ Len(last.result) = Min(last.args.limit, Cardinality(C24_Eligible))
        /\ Ids(last.result) \subseteq C24_Eligible
        /\ Cardinality(Ids(last.result)) = Len(last.result)
        /\ \A n \in DOMAIN last.result :
              last.result[n].score = C24_Score(last.result[n].id)
        /\ \A m, n \in DOMAIN last.result :
              m < n => last.result[m].score >= last.result[n].score
        /\ \A j \in C24_Eligible \ Ids(last.result) :
              \A n \in DOMAIN last.result :
                  C24_Score(j) <= last.result[n].score

\* C24 witness: every slot is filled by an eligible document while a
\* document of the same tenant with a lower id is below the threshold.
C24_Witness ==
    /\ C24_DenseSearch
    /\ Len(last.result) = last.args.limit
    /\ \E j \in C24_Filtered \ C24_Eligible :
          \A n \in DOMAIN last.result : j < last.result[n].id

\* C25  get_stats reports as total_documents the number of documents the
\* bound store holds.
C25_StatsCount ==
    (last.op = "get_stats" /\ last.outcome = "ok") =>
        last.result.total_documents = Cardinality(DOMAIN docs)

\* A hybrid search answered through the orchestrator.
C26_HybridSearch ==
    backend = OPENSEARCH /\ last.op = "search_documents" /\ last.outcome = "ok"

\* Stored documents that pass the tenant/user filter and are relevant to
\* the last search by keyword or as a vector candidate, tags aside.
C26_Candidates ==
    {i \in DOMAIN docs :
        /\ docs[i]["organization_id"] = last.args.organization_id
        /\ last.args.user_id # NoUser =>
              Get(docs[i], "user_id", NoUser) = last.args.user_id
        /\ \/ Terms(last.args.query) \cap Terms(docs[i]["text"]) # {}
           \/ i \in KnnCandidates(docs, Embedding(last.args.query),
                                   2 * last.args.limit)}

C26_SharesTag(i) == Get(docs[i], "tags", {}) \cap last.args.tags # {}

\* C26  Tags in the hybrid store: with a non-empty tags argument T every
\* result carries at least one tag of T (an untagged document is never
\* returned) and one shared tag is enough; with no tags argument tagged and
\* untagged documents alike are returned.  (Sufficiency is stated for
\* searches with room for every match.)
C26_TagsAnyOf ==
    C26_HybridSearch =>
        LET wanted == IF last.args.tags = NoTags THEN C26_Candidates
                      ELSE {i \in C26_Candidates : C26_SharesTag(i)}
        IN  /\ Ids(last.result) \subseteq wanted
            /\ Cardinality(wanted) <= last.args.limit =>
                  Ids(last.result) = wanted

\* C26 witness: a search for two tags returned a document that carries
\* only one of them, and left an untagged one out.
C26_Witness ==
    /\ C26_HybridSearch
    /\ \E n \in DOMAIN last.result :
          /\ C26_SharesTag(last.result[n].id)
          /\ ~(last.args.tags \subseteq docs[last.result[n].id]["tags"])
    /\ \E j \in C26_Candidates : "tags" \notin DOMAIN docs[j]

\* The results for the document add_document has just stored, in a search
\* for its own text under the tenant and user it was added with.
C27_Found ==
    LET r == RAGEngine_search_documents(backend, searchView, last.args.text,
                 last.args.organization_id, last.args.user_id, NoTags,
                 MaxDocs)
    IN  {r[n] : n \in {m \in DOMAIN r : r[m].id = last.result}}

\* C27  Metadata round-trips: the document an add_document stored is found
\* under the tenant and user of the call, with the text of the call and with
\* metadata equal to the map supplied, whatever keys that map has.
C27_MetadataRoundTrip ==
    (last.op = "add_document" /\ last.outcome = "ok") =>
        /\ C27_Found # {}
        /\ \A res \in C27_Found :
              /\ res.metadata = last.args.metadata
              /\ res.text = last.args.text
        /\ OrgOf(backend, docs[last.result]) = last.args.organization_id
        /\ UserOf(backend, docs[last.result]) = last.args.user_id

\* The store as it would be with the documents of the searched
\* organization alone.
C28_OwnDocuments ==
    [i \in {j \in DOMAIN searchView :
                searchView[j]["organization_id"] = last.args.organization_id}
        |-> searchView[i]]

C28_IdList(results) == [n \in DOMAIN results |-> results[n].id]

\* C28  Cross-tenant non-interference of the hybrid search: the documents a
\* search under organization A returns, and their order, are those it would
\* return if only A's documents were stored.
C28_NonInterference ==
    (backend = OPENSEARCH /\ last.op = "search_documents"
                          /\ last.outcome = "ok") =>
        C28_IdList(last.result) =
            C28_IdList(OpenSearchStore_search(C28_OwnDocuments,
                last.args.query, last.args.organization_id,
                last.args.user_id, last.args.tags, last.args.limit, TRUE))

\* C29  DELETE /documents/{doc_id} answers 404 exactly when the document
\* does not exist, 500 when the deletion fails for another reason, and the
\* success message only when the document was removed.
C29_DeleteEndpoint ==
    last.op = "DELETE /documents" =>
        /\ last.status = 404 <=> (last.fault = "none" /\ ~last.stored)
        /\ last.fault # "none" => last.status = 500
        /\ last.status = 200 =>
              (last.stored /\ last.args.doc_id \notin DOMAIN docs)

\* C30  RedisClient holds a client only after a successful ping: the client
\* it holds, and every client connect() or get_client() hands out, has
\* answered a ping and is not closed; after a failed connect() it holds
\* none, and after disconnect() it holds none.
C30_ClientOnlyAfterPing ==
    /\ redis.client # NoClient =>
          (redis.client \in redis.pinged /\ redis.client \notin redis.closed)
    /\ (last.op \in {"connect", "get_client"} /\ last.outcome = "ok") =>
          (last.result \in redis.pinged /\ last.result \notin redis.closed)
    /\ (last.op \in {"connect", "get_client"} /\ last.outcome = "raise"
                                               /\ last.held = NoClient) =>
          redis.client = NoClient
    /\ (last.op = "disconnect" /\ last.outcome = "ok") =>
          redis.client = NoClient
====
